---- MODULE Spec2Model ----
(***************************************************************************)
(* Model of Bunseki-Shukei/scripts/shukei-bunseki20250930_100635.py: the   *)
(* mock-exam aggregation script (cutoff resolution, sheet matching, exam   *)
(* extraction, mastery / late counting, bucket tables, main loop).         *)
(*                                                                         *)
(* Conventions                                                             *)
(*  - a string of the program is a sequence of one-character tokens; the   *)
(*    non-ASCII characters are written as romanised tokens ("ei" for the   *)
(*    character U+82F1, "R1" for the Roman numeral U+2160, ...);           *)
(*  - an optional value (None, NaN, NaT, pd.NA) is a set with at most one  *)
(*    element: {} is the missing value, {v} the value v;                   *)
(*  - a datetime is the integer YYYYMMDD, which keeps the date order;      *)
(*  - a number read from a cell is an integer count of halves (2.5 is 5):  *)
(*    the cells of the model hold whole numbers and halves, which floats   *)
(*    add and average without error;                                       *)
(*  - a DataFrame is a sequence of records (rows, in pandas' row order).   *)
(***************************************************************************)
EXTENDS Integers, Sequences, FiniteSets, TLC

VARIABLES
    pc,            \* position of the modelled call, or of main
    stem,          \* Path(fp).stem, as given to cutoff_for_stem
    override_map,  \* cutoff_override (key -> date)
    cutoff,        \* the resolved cutoff (optional date)
    sheet_names,   \* xls.sheet_names given to _sheets_for_targets
    target_list,   \* the catalog given to _sheets_for_targets and the counters
    hit,           \* the list returned by _sheets_for_targets
    fp,            \* the workbook read: a sequence of sheets
    exam,          \* the table returned by read_exam
    mas,           \* the table returned by count_mastery
    late,          \* the table returned by count_late_mastery
    panel,         \* the panel given to the summarize_* functions
    max_val,       \* the last bucket of the grid
    t_long,        \* the table returned by summarize_long
    t_dist,        \* the table returned by summarize_distribution
    t_wide,        \* the table returned by summarize_wide
    args_file,     \* main: the --file arguments not yet processed
    records,       \* main: the per-file merged tables
    eng_m,         \* main: count_mastery of the last file, English catalog
    math_m,        \* main: count_mastery of the last file, Math catalog
    out            \* main: what the run produced

cutoffVars == <<stem, override_map, cutoff>>
sheetVars == <<sheet_names, target_list, hit>>
bookVars == <<fp, exam, mas, late>>
tableVars == <<panel, max_val, t_long, t_dist, t_wide>>
mainVars == <<args_file, records, eng_m, math_m, out>>

vars == <<pc, cutoffVars, sheetVars, bookVars, tableVars, mainVars>>

None == {}
Some(x) == {x}
Val(o) == CHOOSE x \in o : TRUE

-----------------------------------------------------------------------------
(* Characters *)

\* the decimal digits of the model: the ASCII digits and the full-width
\* digits U+FF10..U+FF19 ("fw0".."fw9"); re's \d on a str pattern matches
\* both, and int() converts both
Digits ==
    {"0", "1", "2", "3", "4", "5", "6", "7", "8", "9",
     "fw0", "fw1", "fw2", "fw3", "fw4", "fw5", "fw6", "fw7", "fw8", "fw9"}

\* re's \d on the characters of the model
IsDigit(c) == c \in Digits

\* int() of one decimal digit
DigitVal(c) ==
    CASE c \in {"0", "fw0"} -> 0 [] c \in {"1", "fw1"} -> 1
      [] c \in {"2", "fw2"} -> 2 [] c \in {"3", "fw3"} -> 3
      [] c \in {"4", "fw4"} -> 4 [] c \in {"5", "fw5"} -> 5
      [] c \in {"6", "fw6"} -> 6 [] c \in {"7", "fw7"} -> 7
      [] c \in {"8", "fw8"} -> 8 [] c \in {"9", "fw9"} -> 9

\* int() of a digit string
RECURSIVE IntOf(_)
IntOf(s) ==
    IF s = <<>> THEN 0
    ELSE 10 * IntOf(SubSeq(s, 1, Len(s) - 1)) + DigitVal(s[Len(s)])

\* re.search(r"(\d{n})", s): the start of the leftmost window of n digits,
\* 0 when there is none
RECURSIVE DigitRunFrom(_, _, _)
DigitRunFrom(s, n, i) ==
    IF i + n - 1 > Len(s) THEN 0
    ELSE IF \A k \in i..(i + n - 1) : IsDigit(s[k]) THEN i
    ELSE DigitRunFrom(s, n, i + 1)

SearchDigits(s, n) == DigitRunFrom(s, n, 1)

-----------------------------------------------------------------------------
(* Cutoff resolver *)

\* EXAM_CUTOFF_BY_YEAR.get(y)
EXAM_CUTOFF_BY_YEAR(y) ==
    CASE y = 2023 -> Some(20230117)
      [] y = 2024 -> Some(20240117)
      [] y = 2025 -> Some(20250118)
      [] OTHER -> None

\* detect_year_from_stem: Optional[int]
detect_year_from_stem(s) ==
    LET m6 == SearchDigits(s, 6)
        m4 == SearchDigits(s, 4)
    IN  IF m6 # 0 THEN Some(IntOf(SubSeq(s, m6, m6 + 3)))
        ELSE IF m4 # 0 THEN Some(IntOf(SubSeq(s, m4, m4 + 3)))
        ELSE None

\* mutant: the 4-digit year is looked up in the override map too
cutoff_for_stem_override4(s, omap) ==
    LET m6 == SearchDigits(s, 6)
        m4 == SearchDigits(s, 4)
    IN  IF m6 # 0
        THEN LET key6 == SubSeq(s, m6, m6 + 5)
             IN  IF key6 \in DOMAIN omap THEN Some(omap[key6])
                 ELSE EXAM_CUTOFF_BY_YEAR(IntOf(SubSeq(key6, 1, 4)) + 1)
        ELSE IF m4 # 0 /\ SubSeq(s, m4, m4 + 3) \in DOMAIN omap
             THEN Some(omap[SubSeq(s, m4, m4 + 3)])
        ELSE LET year == detect_year_from_stem(s)
             IN  IF year # None /\ Val(year) # 0
                 THEN EXAM_CUTOFF_BY_YEAR(Val(year) + 1)
                 ELSE None

\* cutoff_for_stem(stem, override_map); override_map is a function from its
\* keys (6-character strings) to dates
cutoff_for_stem(s, omap) ==
    LET m6 == SearchDigits(s, 6)
    IN  IF m6 # 0
        THEN LET key6 == SubSeq(s, m6, m6 + 5)
             IN  IF key6 \in DOMAIN omap THEN Some(omap[key6])
                 ELSE EXAM_CUTOFF_BY_YEAR(IntOf(SubSeq(key6, 1, 4)) + 1)
        ELSE LET year == detect_year_from_stem(s)
             IN  IF year # None /\ Val(year) # 0
                 THEN EXAM_CUTOFF_BY_YEAR(Val(year) + 1)
                 ELSE None

-----------------------------------------------------------------------------
(* Bounded inputs of the cutoff resolver *)

MaxStemLen == 7

\* ASCII digits, a full-width digit and a letter
StemChars == {"2", "0", "fw2", "x"}

\* every sequence over S of length 0..n
SeqsUpTo(S, n) == UNION {[1..k -> S] : k \in 0..n}

Stems == SeqsUpTo(StemChars, MaxStemLen)

\* keys given with --cutoff: two YYYYMM keys and a 4-digit key
OverrideKeys ==
    {<<"2", "0", "2", "2", "0", "2">>, <<"0", "2", "2", "0", "2", "2">>,
     <<"2", "0", "2", "2">>}

OverrideDate == 20250301

OverrideMaps == UNION {[K -> {OverrideDate}] : K \in SUBSET OverrideKeys}

\* variables a specification does not use keep these values
IdleSheets == sheet_names = <<>> /\ target_list = <<>> /\ hit = <<>>
IdleCutoff == stem = <<>> /\ override_map = <<>> /\ cutoff = None
IdleBook == fp = <<>> /\ exam = <<>> /\ mas = <<>> /\ late = <<>>
IdleTables == panel = <<>> /\ max_val = 0 /\ t_long = <<>> /\ t_dist = <<>> /\ t_wide = <<>>
IdleMain == args_file = <<>> /\ records = <<>> /\ eng_m = <<>> /\ math_m = <<>> /\ out = "none"

InitCutoff ==
    /\ pc = "call"
    /\ stem \in Stems
    /\ override_map \in OverrideMaps
    /\ cutoff = None
    /\ IdleSheets /\ IdleBook /\ IdleTables /\ IdleMain

\* cutoff = cutoff_for_stem(stem, cutoff_override)
ResolveCutoff ==
    /\ pc = "call"
    /\ cutoff' = cutoff_for_stem(stem, override_map)
    /\ pc' = "done"
    /\ UNCHANGED <<stem, override_map, sheetVars, bookVars, tableVars, mainVars>>

SpecCutoff == InitCutoff /\ [][ResolveCutoff]_vars

-----------------------------------------------------------------------------
(* C3 *)

\* s has n consecutive digits starting at position i
RunAt(s, n, i) == i >= 1 /\ i + n - 1 <= Len(s) /\ \A k \in i..(i + n - 1) : s[k] \in Digits

HasRun(s, n) == \E i \in 1..Len(s) : RunAt(s, n, i)

\* the leftmost run of n digits (the one the resolver reads)
FirstRun(s, n) ==
    LET i == CHOOSE j \in 1..Len(s) : RunAt(s, n, j) /\ \A h \in 1..(j - 1) : ~RunAt(s, n, h)
    IN  SubSeq(s, i, i + n - 1)

YearOf(r) == 1000 * DigitVal(r[1]) + 100 * DigitVal(r[2]) + 10 * DigitVal(r[3]) + DigitVal(r[4])

Calendar == {<<2023, 20230117>>, <<2024, 20240117>>, <<2025, 20250118>>}

CalendarEntry(y) == {e[2] : e \in {c \in Calendar : c[1] = y}}

\* C3: the resolved cutoff is (1) the override date when the stem's (leftmost)
\* 6-digit run is an override key, (2) else the calendar entry of that run's
\* year + 1, (3) else, with a 4-digit run only, the calendar entry of that
\* year + 1 whatever the override map holds, (4) else no cutoff; a year + 1
\* outside the calendar gives no cutoff.
C3_CutoffResolution ==
    pc = "done" =>
        IF HasRun(stem, 6)
        THEN IF FirstRun(stem, 6) \in DOMAIN override_map
             THEN cutoff = {override_map[FirstRun(stem, 6)]}
             ELSE cutoff = CalendarEntry(YearOf(FirstRun(stem, 6)) + 1)
        ELSE IF HasRun(stem, 4)
        THEN cutoff = CalendarEntry(YearOf(FirstRun(stem, 4)) + 1)
        ELSE cutoff = None

\* a stem with a 6-digit run whose key is overridden, resolved
C3_Witness_Override ==
    /\ pc = "done"
    /\ HasRun(stem, 6)
    /\ FirstRun(stem, 6) \in DOMAIN override_map
    /\ cutoff = {OverrideDate}

-----------------------------------------------------------------------------
(* Sheet matcher *)

\* ENG_TARGETS and MATH_TARGETS, character by character
ENG_TARGETS ==
    << <<"ei", "tan", "go", "1", "8", "0", "0">>,
       <<"ei", "juku", "go", "7", "5", "0">>,
       <<"ei", "bun", "pou", "7", "5", "0">>,
       <<"ei", "rei", "bun", "3", "0", "0">>,
       <<"jou", "kyuu", "ei", "tan", "go", "1", "0", "0", "0">>,
       <<"jou", "kyuu", "ei", "juku", "go", "5", "0", "0">> >>

MATH_TARGETS ==
    << <<"suu", "gaku", "R1">>,
       <<"suu", "gaku", "A">>,
       <<"suu", "gaku", "R2">>,
       <<"suu", "gaku", "B">>,
       <<"suu", "gaku", "R1", "A", "jou", "kyuu">>,
       <<"suu", "gaku", "R2", "B", "jou", "kyuu">> >>

\* re's \s: the space, the no-break space U+00A0 and the wide space U+3000
IsSpace(c) == c \in {" ", "nbsp", "wsp"}

\* the case folding of re.I on the cased characters of the model (the Latin
\* letters and the Roman numerals U+2160, U+2161)
Fold(c) ==
    CASE c = "A" -> "a" [] c = "B" -> "b" [] c = "R1" -> "r1" [] c = "R2" -> "r2"
      [] OTHER -> c

\* norm(x) = re.sub(r"\s+", "", str(x))
RECURSIVE norm(_)
norm(x) ==
    IF x = <<>> THEN <<>>
    ELSE IF IsSpace(Head(x)) THEN norm(Tail(x))
    ELSE <<Head(x)>> \o norm(Tail(x))

\* s[i..j] are all whitespace
AllSpace(s, i, j) == \A k \in i..j : IsSpace(s[k])

\* t occurs in s at position i, under re.I
LitAt(s, t, i) ==
    /\ i + Len(t) - 1 <= Len(s)
    /\ \A k \in 1..Len(t) : Fold(s[i + k - 1]) = Fold(t[k])

\* mutant: the year is optional, ^\s*(\d{4})?\s*.*<t>\s*$
pat_match_optional_year(t, s) ==
    \E c \in 0..Len(s) :
        /\ LitAt(s, t, c + 1)
        /\ AllSpace(s, c + Len(t) + 1, Len(s))

\* re.compile(rf"^\s*\d{{4}}\s*.*{re.escape(t)}\s*$", re.I).match(s):
\* a whitespace up to a, four digits, whitespace up to b, anything up to c,
\* then t, then whitespace to the end
pat_match(t, s) ==
    \E a \in 0..Len(s) :
        /\ AllSpace(s, 1, a)
        /\ a + 4 <= Len(s)
        /\ \A k \in (a + 1)..(a + 4) : IsDigit(s[k])
        /\ \E b \in (a + 4)..Len(s) :
            /\ AllSpace(s, a + 5, b)
            /\ \E c \in b..Len(s) :
                /\ LitAt(s, t, c + 1)
                /\ AllSpace(s, c + Len(t) + 1, Len(s))

\* the first target of the list whose pattern matches s_norm (the inner loop
\* with its break): its index, 0 when none matches
FirstTarget(targets, s_norm) ==
    LET H == {i \in 1..Len(targets) : pat_match(norm(targets[i]), s_norm)}
    IN  IF H = {} THEN 0 ELSE CHOOSE i \in H : \A j \in H : i <= j

\* _sheets_for_targets(sheet_names, target_list): the (target, sheet) pairs
RECURSIVE _sheets_for_targets(_, _)
_sheets_for_targets(names, targets) ==
    IF names = <<>> THEN <<>>
    ELSE LET i == FirstTarget(targets, norm(Head(names)))
         IN  (IF i = 0 THEN <<>> ELSE << <<targets[i], Head(names)>> >>)
             \o _sheets_for_targets(Tail(names), targets)

-----------------------------------------------------------------------------
(* Bounded inputs of the sheet matcher *)

MaxPieces == 3

\* a sheet name is a concatenation of at most MaxPieces of these pieces
NamePieces ==
    { <<"2", "0", "2", "4">>, <<"fw2", "fw0", "fw2", "fw4">>, <<"2", "0">>,
      <<" ">>, <<"wsp">>, <<"x">>,
      ENG_TARGETS[1], ENG_TARGETS[5],
      MATH_TARGETS[1], <<"suu", "gaku", "a">>, MATH_TARGETS[5] }

RECURSIVE Concat(_)
Concat(ps) == IF ps = <<>> THEN <<>> ELSE Head(ps) \o Concat(Tail(ps))

SheetNamesOfPieces == {Concat(ps) : ps \in SeqsUpTo(NamePieces, MaxPieces)}

\* the sheets that follow the drawn one in the workbook
TailSheets == { <<>>, << <<"2", "0", "2", "4">> \o ENG_TARGETS[1] >> }

InitSheets ==
    /\ pc = "call"
    /\ \E n \in SheetNamesOfPieces, tl \in TailSheets : sheet_names = <<n>> \o tl
    /\ target_list \in {ENG_TARGETS, MATH_TARGETS}
    /\ hit = <<>>
    /\ IdleCutoff /\ IdleBook /\ IdleTables /\ IdleMain

\* hit_pairs = _sheets_for_targets(xls.sheet_names, target_list)
MatchSheets ==
    /\ pc = "call"
    /\ hit' = _sheets_for_targets(sheet_names, target_list)
    /\ pc' = "done"
    /\ UNCHANGED <<sheet_names, target_list, cutoffVars, bookVars, tableVars, mainVars>>

SpecSheets == InitSheets /\ [][MatchSheets]_vars

-----------------------------------------------------------------------------
(* C9 *)

\* s ends with t, whitespace stripped from both and letter case ignored
EndsWithUnit(s, t) ==
    LET sn == SelectSeq(s, LAMBDA c : ~IsSpace(c))
        tn == SelectSeq(t, LAMBDA c : ~IsSpace(c))
    IN  /\ Len(tn) <= Len(sn)
        /\ \A k \in 1..Len(tn) : Fold(sn[Len(sn) - Len(tn) + k]) = Fold(tn[k])

\* the same, for a name that starts with four digits which are not part of
\* the unit name
EndsWithUnitAfterYear(s, t) ==
    LET sn == SelectSeq(s, LAMBDA c : ~IsSpace(c))
    IN  /\ Len(sn) >= 4
        /\ \A k \in 1..4 : sn[k] \in Digits
        /\ EndsWithUnit(SubSeq(sn, 5, Len(sn)), t)

Matched(s, t) == \E k \in 1..Len(hit) : hit[k] = <<t, s>>

InCatalog(t) == \E i \in 1..Len(target_list) : target_list[i] = t

\* C9 as stated: a sheet is matched to a unit exactly when its stripped name
\* ends with the unit name, with or without a leading 4-digit year.
C9_YearOptional ==
    pc = "done" =>
        \A k \in 1..Len(sheet_names) :
            /\ (\E i \in 1..Len(target_list) : EndsWithUnit(sheet_names[k], target_list[i]))
                   => \E i \in 1..Len(target_list) :
                          /\ EndsWithUnit(sheet_names[k], target_list[i])
                          /\ Matched(sheet_names[k], target_list[i])
            /\ (~\E i \in 1..Len(target_list) : EndsWithUnit(sheet_names[k], target_list[i]))
                   => ~\E t \in {target_list[i] : i \in 1..Len(target_list)} :
                           Matched(sheet_names[k], t)

\* C9 amended: the 4-digit year is mandatory. A sheet is matched to a unit
\* exactly when its stripped name starts with four digits and what follows
\* them ends with the unit name; a name that does not end with a unit name is
\* never matched, and neither is a name without the leading year.
C9_YearMandatory ==
    pc = "done" =>
        \A k \in 1..Len(sheet_names) :
            \A i \in 1..Len(target_list) :
                Matched(sheet_names[k], target_list[i])
                    <=> EndsWithUnitAfterYear(sheet_names[k], target_list[i])

\* a sheet named exactly a unit name, left unmatched, beside a matched sheet
\* that carries the year
C9_Witness_NoYear ==
    /\ pc = "done"
    /\ Len(sheet_names) = 2
    /\ InCatalog(sheet_names[1])
    /\ Len(hit) = 1
    /\ hit[1][2] = sheet_names[2]

-----------------------------------------------------------------------------
(* Workbooks                                                               *)
(* A sheet is [name, cols, rows]: cols is the set of the columns the       *)
(* column lookups find ("id", "grade", "eng", "m1", "m2", "jpn", "kdate"), *)
(* a row is a record of cells. A cell is [k, v]: a number ("num", v in      *)
(* halves), a date ("date"), a text that parses as neither ("txt") or an   *)
(* empty cell ("nil"). The grade cell is the text str(x) of the cell.      *)

\* the cell holding the whole number n, and the cell holding n + 1/2
Num(n) == [k |-> "num", v |-> 2 * n]
Half(n) == [k |-> "num", v |-> 2 * n + 1]
Date(d) == [k |-> "date", v |-> d]
Txt == [k |-> "txt", v |-> 0]
Nil == [k |-> "nil", v |-> 0]

\* df[name]: the cells of a column of the sheet
Col(sh, name) == [i \in DOMAIN sh.rows |-> sh.rows[i][name]]

\* read_excel gives a column of dates (and empty cells) the dtype
\* datetime64; any other column with a date in it is an object column
IsDatetime64(col) ==
    /\ \E i \in DOMAIN col : col[i].k = "date"
    /\ \A i \in DOMAIN col : col[i].k \in {"date", "nil"}

DigitChar(d) == <<"0", "1", "2", "3", "4", "5", "6", "7", "8", "9">>[d + 1]

\* .astype(str) of a non-negative int: its decimal numeral
RECURSIVE astype_str(_)
astype_str(n) ==
    IF n < 10 THEN <<DigitChar(n)>>
    ELSE astype_str(n \div 10) \o <<DigitChar(n % 10)>>

\* the days from 1970-01-01 to the date d = YYYYMMDD
DaysFromEpoch(d) ==
    LET m == (d \div 100) % 100
        y == (d \div 10000) - (IF m <= 2 THEN 1 ELSE 0)
        era == y \div 400
        yoe == y - era * 400
        doy == ((153 * (IF m > 2 THEN m - 3 ELSE m + 9) + 2) \div 5) + (d % 100) - 1
        doe == yoe * 365 + (yoe \div 4) - (yoe \div 100) + doy
    IN  era * 146097 + doe - 719468

\* the int64 view of a datetime64 value, as a decimal numeral: the
\* nanoseconds from the epoch to the date d (1970 or later), 864 * 10^11 a day
NsNumeral(d) ==
    IF DaysFromEpoch(d) = 0 THEN <<"0">>
    ELSE astype_str(DaysFromEpoch(d) * 864) \o [i \in 1..11 |-> "0"]

\* the int64 view of NaT
Int64Min ==
    <<"-", "9", "2", "2", "3", "3", "7", "2", "0", "3", "6", "8", "5", "4", "7", "7",
      "5", "8", "0", "8">>

\* pd.to_numeric(col, errors="coerce") at cell c of the column. A number is
\* itself (in halves); a text, an empty cell and, in an object column, a date
\* are NaN. A datetime64 column is viewed as int64: a date is its nanoseconds
\* and an empty cell the smallest int64, neither of them NaN; such a value is
\* the record [int64 |-> numeral], on which the model defines the conversion
\* to a student_id and no arithmetic
to_numeric(col, c) ==
    IF IsDatetime64(col)
    THEN Some([int64 |-> IF c.k = "date" THEN NsNumeral(c.v) ELSE Int64Min])
    ELSE IF c.k = "num" THEN Some(c.v)
    ELSE None

\* pd.to_datetime(x, errors="coerce"): a number is read as nanoseconds after
\* the epoch, which for the numbers of the model is a time of 1970-01-01
to_datetime(c) ==
    IF c.k = "date" THEN Some(c.v)
    ELSE IF c.k = "num" THEN Some(19700101)
    ELSE None

\* .astype(int) of a non-negative number (in halves): truncation
astype_int(x) == x \div 2

\* student_id.astype(int).astype(str) at value x of a column: the numeral of
\* the truncated number, or of the int64 a datetime64 column was viewed as
student_id_str(col, x) ==
    IF IsDatetime64(col) THEN x.int64 ELSE astype_str(astype_int(x))

\* pd.read_excel(fp, sheet_name=s): the (first) sheet of that name
SheetByName(book, n) ==
    book[CHOOSE i \in DOMAIN book :
             book[i].name = n /\ \A j \in 1..(i - 1) : book[j].name # n]

SheetNames(book) == [i \in DOMAIN book |-> book[i].name]

\* the order of the characters of a student_id (code points): "-" first
CharRank(c) == IF c = "-" THEN -1 ELSE DigitVal(c)

\* a < b for two student_id strings, as Python compares str (by code
\* point, a proper prefix first): the order of the student_id keys
RECURSIVE StrLess(_, _)
StrLess(a, b) ==
    IF a = <<>> THEN b # <<>>
    ELSE IF b = <<>> THEN FALSE
    ELSE IF Head(a) = Head(b) THEN StrLess(Tail(a), Tail(b))
    ELSE CharRank(Head(a)) < CharRank(Head(b))

IntLess(a, b) == a < b

\* .fillna(0)
fillna0(o) == IF o = None THEN 0 ELSE Val(o)

Max(S) == CHOOSE x \in S : \A y \in S : y <= x
Min(S) == CHOOSE x \in S : \A y \in S : x <= y

\* the max / min aggregation of a group: missing values are skipped, a group
\* of missing values gives a missing value
OptMax(os) == IF UNION os = {} THEN None ELSE Some(Max(UNION os))
OptMin(os) == IF UNION os = {} THEN None ELSE Some(Min(UNION os))

\* the elements of a finite set in the (total) order Less
SortedBy(S, Less(_, _)) ==
    LET RECURSIVE Go(_)
        Go(T) ==
            IF T = {} THEN <<>>
            ELSE LET m == CHOOSE x \in T : \A y \in T : y = x \/ Less(x, y)
                 IN  <<m>> \o Go(T \ {m})
    IN  Go(S)

RECURSIVE SumSeq(_)
SumSeq(q) == IF q = <<>> THEN 0 ELSE Head(q) + SumSeq(Tail(q))

Range(f) == {f[i] : i \in DOMAIN f}

\* [g(f[1]), ..., g(f[n])]
MapSeq(f, g(_)) == [i \in DOMAIN f |-> g(f[i])]

-----------------------------------------------------------------------------
(* Exam score extractor *)

Cohorts == <<"J1+2", "J3">>

CohortRank(g) == IF g = "J1+2" THEN 1 ELSE 2

\* str.translate of normalize_grade_val: wide digits and the wide space
translate(c) ==
    CASE c = "fw0" -> "0" [] c = "fw1" -> "1" [] c = "fw2" -> "2" [] c = "fw3" -> "3"
      [] c = "fw4" -> "4" [] c = "fw5" -> "5" [] c = "fw6" -> "6" [] c = "fw7" -> "7"
      [] c = "fw8" -> "8" [] c = "fw9" -> "9" [] c = "wsp" -> " "
      [] OTHER -> c

\* str.strip()
RECURSIVE strip(_)
strip(x) ==
    IF x = <<>> THEN <<>>
    ELSE IF IsSpace(Head(x)) THEN strip(Tail(x))
    ELSE IF IsSpace(x[Len(x)]) THEN strip(SubSeq(x, 1, Len(x) - 1))
    ELSE x

\* re's \w on the characters of the model
IsWord(c) == c \notin {" ", "nbsp", "wsp", ".", "-", "+"}

\* re.search(r"(高\s*3|3年|\b3\b)", s)
GradeThreeSearch(x) ==
    \E i \in 1..Len(x) :
        \/ /\ x[i] = "kou"
           /\ \E j \in i..(Len(x) - 1) : AllSpace(x, i + 1, j) /\ x[j + 1] = "3"
        \/ /\ x[i] = "3"
           /\ i + 1 <= Len(x)
           /\ x[i + 1] = "nen"
        \/ /\ x[i] = "3"
           /\ (i = 1 \/ ~IsWord(x[i - 1]))
           /\ (i = Len(x) \/ ~IsWord(x[i + 1]))

\* normalize_grade_val(x)
normalize_grade_val(x) ==
    IF GradeThreeSearch(strip(MapSeq(x, translate))) THEN "J3" ELSE "J1+2"

\* the marker of a results sheet
ResultMarker == <<"gou", "dou", "kyou", "te", "ketsu", "ka">>

\* t in s
Contains(s, t) ==
    \E i \in 1..(Len(s) - Len(t) + 1) : \A k \in 1..Len(t) : s[i + k - 1] = t[k]

\* pick_exam_sheets(xls_names)
pick_exam_sheets(xls_names) == SelectSeq(xls_names, LAMBDA n : Contains(n, ResultMarker))

\* score_math of one row: both sub-scores with fillna(0), or pd.NA
math_of_row(sh, r) ==
    IF "m1" \in sh.cols /\ "m2" \in sh.cols
    THEN Some(fillna0(to_numeric(Col(sh, "m1"), r.m1))
              + fillna0(to_numeric(Col(sh, "m2"), r.m2)))
    ELSE None

\* the frame `sub` read_exam builds from one usable sheet, after dropna and
\* student_id.astype(int).astype(str)
exam_sub(sh) ==
    LET raw == MapSeq(sh.rows, LAMBDA r :
                   [sid |-> to_numeric(Col(sh, "id"), r.id),
                    grade_norm |-> normalize_grade_val(r.grade),
                    score_eng |-> to_numeric(Col(sh, "eng"), r.eng),
                    score_math |-> math_of_row(sh, r),
                    score_jpn |-> IF "jpn" \in sh.cols
                                  THEN to_numeric(Col(sh, "jpn"), r.jpn) ELSE None])
        kept == SelectSeq(raw, LAMBDA r : r.sid # None)
    IN  MapSeq(kept, LAMBDA r :
            [student_id |-> student_id_str(Col(sh, "id"), Val(r.sid)),
             grade_norm |-> r.grade_norm,
             score_eng |-> r.score_eng, score_math |-> r.score_math,
             score_jpn |-> r.score_jpn])

\* the sheets read_exam does not skip
exam_usable(sh) == "eng" \in sh.cols /\ "id" \in sh.cols /\ "grade" \in sh.cols

\* mutant: the rows are grouped by student_id alone, the first cohort kept
exam_groupby_student(rows) ==
    LET ids == {rows[i].student_id : i \in DOMAIN rows}
    IN  MapSeq(SortedBy(ids, StrLess), LAMBDA sid :
            LET grp == SelectSeq(rows, LAMBDA r : r.student_id = sid)
            IN  [student_id |-> sid, grade_norm |-> grp[1].grade_norm,
                 score_eng |-> OptMax({grp[i].score_eng : i \in DOMAIN grp}),
                 score_math |-> OptMax({grp[i].score_math : i \in DOMAIN grp}),
                 score_jpn |-> OptMax({grp[i].score_jpn : i \in DOMAIN grp})])

\* out.groupby(["student_id", "grade_norm"], as_index=False).agg(max ...):
\* the groups come sorted by the key, the student_id compared as a string
exam_groupby(rows) ==
    LET keys == {<<rows[i].student_id, rows[i].grade_norm>> : i \in DOMAIN rows}
        less(a, b) ==
            \/ StrLess(a[1], b[1])
            \/ a[1] = b[1] /\ CohortRank(a[2]) < CohortRank(b[2])
    IN  MapSeq(SortedBy(keys, less), LAMBDA key :
            LET grp == SelectSeq(rows, LAMBDA r :
                           r.student_id = key[1] /\ r.grade_norm = key[2])
            IN  [student_id |-> key[1], grade_norm |-> key[2],
                 score_eng |-> OptMax({grp[i].score_eng : i \in DOMAIN grp}),
                 score_math |-> OptMax({grp[i].score_math : i \in DOMAIN grp}),
                 score_jpn |-> OptMax({grp[i].score_jpn : i \in DOMAIN grp})])

\* read_exam(fp): each picked name is read with read_excel(fp, sheet_name=s)
read_exam(book) ==
    LET sheets == MapSeq(pick_exam_sheets(SheetNames(book)),
                         LAMBDA n : SheetByName(book, n))
        dfs == MapSeq(SelectSeq(sheets, exam_usable), exam_sub)
    IN  exam_groupby(Concat(dfs))

-----------------------------------------------------------------------------
(* Bounded inputs of the exam score extractor *)

MaxExamRows == 2

ResultName == <<"2", "0", "2", "5", "0", "1">> \o ResultMarker

\* the name of a second results sheet of the workbook
ResultName2 == <<"2", "0", "2", "5", "0", "2">> \o ResultMarker

OtherName == <<"x">>

\* grade cells: wide "3" + "nen" (third year), "kou" + "2" (second year)
GradeCells == { <<"fw3", "nen">>, <<"kou", "2">> }

\* the score cells of a row: all present, all empty, one math sub-score only
ScoreCells ==
    { [eng |-> Num(50), m1 |-> Num(30), m2 |-> Num(40), jpn |-> Num(60)],
      [eng |-> Nil, m1 |-> Nil, m2 |-> Nil, jpn |-> Nil],
      [eng |-> Num(80), m1 |-> Num(30), m2 |-> Txt, jpn |-> Nil] }

ExamRow(id, g, sc) ==
    [id |-> id, grade |-> g, eng |-> sc.eng, m1 |-> sc.m1, m2 |-> sc.m2,
     jpn |-> sc.jpn, kdate |-> Nil]

\* students 2 and 10 (as strings, "10" sorts before "2"), a row whose id 2.5
\* truncates to student 2, and a row whose id cell holds a date (no number
\* beside numeric ids, a number of nanoseconds in a column of dates)
ExamRows ==
    {ExamRow(Num(i), g, sc) : i \in {2, 10}, g \in GradeCells, sc \in ScoreCells}
        \cup {ExamRow(Date(20250118), <<"fw3", "nen">>,
                      CHOOSE sc \in ScoreCells : sc.jpn = Num(60)),
              ExamRow(Half(2), <<"kou", "2">>, CHOOSE sc \in ScoreCells : sc.eng = Num(80))}

AllExamCols == {"id", "grade", "eng", "m1", "m2", "jpn"}

\* (name, columns) of the first sheet: a full results sheet, one without the
\* math columns, without the English column, without the id column, and a
\* sheet that is no results sheet
ExamSheetKinds ==
    { <<ResultName, AllExamCols>>,
      <<ResultName, AllExamCols \ {"m1", "m2", "jpn"}>>,
      <<ResultName, AllExamCols \ {"eng"}>>,
      <<ResultName, AllExamCols \ {"id"}>>,
      <<OtherName, AllExamCols>> }

FirstExamSheets ==
    {[name |-> kd[1], cols |-> kd[2], rows |-> rs] :
        kd \in ExamSheetKinds, rs \in SeqsUpTo(ExamRows, MaxExamRows)}

\* a second results sheet of at most one row
SecondExamSheets ==
    {[name |-> ResultName2, cols |-> c, rows |-> rs] :
        c \in {AllExamCols, AllExamCols \ {"m2"}}, rs \in SeqsUpTo(ExamRows, 1)}

ExamBooks ==
    {<<a>> : a \in FirstExamSheets} \cup
    {<<a, b>> : a \in FirstExamSheets, b \in SecondExamSheets}

InitExam ==
    /\ pc = "call"
    /\ fp \in ExamBooks
    /\ exam = <<>> /\ mas = <<>> /\ late = <<>>
    /\ IdleCutoff /\ IdleSheets /\ IdleTables /\ IdleMain

\* base = read_exam(fp)
ReadExam ==
    /\ pc = "call"
    /\ exam' = read_exam(fp)
    /\ pc' = "done"
    /\ UNCHANGED <<fp, mas, late, cutoffVars, sheetVars, tableVars, mainVars>>

SpecExam == InitExam /\ [][ReadExam]_vars

-----------------------------------------------------------------------------
(* C7 *)

\* the student row r of sheet sh is listed under: none when the id is
\* missing after to_numeric
IdString(col, x) == IF x = None THEN None ELSE Some(student_id_str(col, Val(x)))

IdOfCell(col, c) == IdString(col, to_numeric(col, c))

StudentOf(sh, r) == IdOfCell(Col(sh, "id"), r.id)

\* the (student, cohort) pairs listed in the results sheets read_exam reads
ListedPairs(book) ==
    UNION {{<<Val(StudentOf(sh, r)), normalize_grade_val(r.grade)>> :
               r \in {x \in Range(sh.rows) : StudentOf(sh, x) # None}} :
           sh \in {SheetByName(book, n) :
                      n \in {m \in Range(SheetNames(book)) : Contains(m, ResultMarker)}}
                  \cap {x \in Range(book) : {"eng", "id", "grade"} \subseteq x.cols}}

\* C7 as stated: no two rows of the table read_exam returns carry the same
\* student_id.
C7_StudentIdUnique ==
    pc = "done" =>
        \A i, j \in DOMAIN exam : exam[i].student_id = exam[j].student_id => i = j

\* C7 amended: no two rows carry the same (student_id, cohort) pair, and the
\* table has exactly one row for each pair listed in a results sheet: a
\* student listed under two cohorts has two rows.
C7_StudentCohortUnique ==
    pc = "done" =>
        /\ \A i, j \in DOMAIN exam :
               (exam[i].student_id = exam[j].student_id
                    /\ exam[i].grade_norm = exam[j].grade_norm) => i = j
        /\ {<<exam[i].student_id, exam[i].grade_norm>> : i \in DOMAIN exam} = ListedPairs(fp)

\* a student listed in two results sheets under different cohorts
C7_Witness_TwoCohorts ==
    /\ pc = "done"
    /\ Len(fp) = 2
    /\ \E r1 \in Range(fp[1].rows), r2 \in Range(fp[2].rows) :
           /\ r1.id = r2.id /\ r1.id.k = "num"
           /\ normalize_grade_val(r1.grade) # normalize_grade_val(r2.grade)
    /\ \E i, j \in DOMAIN exam :
           i # j /\ exam[i].student_id = exam[j].student_id

-----------------------------------------------------------------------------
(* Mastery counter and late completion counter *)

\* the sheets of the hit pairs of target tgt that have an id column and a
\* completion-date column (_read_kdate_series), in the order of the pairs
unit_sheets(book, hit_pairs, tgt) ==
    LET mine == SelectSeq(hit_pairs, LAMBDA h : h[1] = tgt)
        shs == MapSeq(mine, LAMBDA h : SheetByName(book, h[2]))
    IN  SelectSeq(shs, LAMBDA sh : "id" \in sh.cols /\ "kdate" \in sh.cols)

\* mutant: completed only strictly before the cutoff
completed_before(d, co) ==
    IF d # None /\ (co = None \/ Val(d) < Val(co)) THEN 1 ELSE 0

\* dates.notna() & ((dates <= cutoff) if cutoff is not None else dates.notna())
completed_of(d, co) ==
    IF d # None /\ (co = None \/ Val(d) <= Val(co)) THEN 1 ELSE 0

\* the rows of a unit sheet with a numeric student id, after
\* student_id.astype(int).astype(str): [student_id, date]
unit_rows(sh) ==
    LET raw == MapSeq(sh.rows, LAMBDA r :
                   [sid |-> to_numeric(Col(sh, "id"), r.id),
                    date |-> to_datetime(r.kdate)])
        kept == SelectSeq(raw, LAMBDA r : r.sid # None)
    IN  MapSeq(kept, LAMBDA r :
            [student_id |-> student_id_str(Col(sh, "id"), Val(r.sid)), date |-> r.date])

StudentIds(rows) == {rows[i].student_id : i \in DOMAIN rows}

RowsOf(rows, sid) == SelectSeq(rows, LAMBDA r : r.student_id = sid)

\* mutant: the duplicates of a student are added up
groupby_sum(rows) ==
    MapSeq(SortedBy(StudentIds(rows), StrLess), LAMBDA sid :
        LET grp == RowsOf(rows, sid)
        IN  [student_id |-> sid, flag |-> SumSeq(MapSeq(grp, LAMBDA r : r.flag))])

\* .groupby("student_id", as_index=False)["completed"].max()
groupby_max(rows) ==
    MapSeq(SortedBy(StudentIds(rows), StrLess), LAMBDA sid :
        LET grp == RowsOf(rows, sid)
        IN  [student_id |-> sid, flag |-> Max({grp[i].flag : i \in DOMAIN grp})])

\* the frame count_mastery appends for one sheet
mastery_frame(sh, co) ==
    groupby_max(MapSeq(unit_rows(sh), LAMBDA r :
        [student_id |-> r.student_id, flag |-> completed_of(r.date, co)]))

\* tgt_df of count_mastery: the frames concatenated and grouped again
mastery_target(book, hit_pairs, tgt, co) ==
    groupby_max(Concat(MapSeq(unit_sheets(book, hit_pairs, tgt),
                              LAMBDA sh : mastery_frame(sh, co))))

\* .groupby("student_id", as_index=False)["date"].min()
groupby_min_date(rows) ==
    MapSeq(SortedBy(StudentIds(rows), StrLess), LAMBDA sid :
        LET grp == RowsOf(rows, sid)
        IN  [student_id |-> sid, date |-> OptMin({grp[i].date : i \in DOMAIN grp})])

\* tgt_df of count_late_mastery: the per-sheet frames concatenated (and not
\* grouped again), with the late flag (date > cutoff).fillna(False)
late_target(book, hit_pairs, tgt, co) ==
    LET frames == MapSeq(unit_sheets(book, hit_pairs, tgt),
                         LAMBDA sh : groupby_min_date(unit_rows(sh)))
    IN  MapSeq(Concat(frames), LAMBDA r :
            [student_id |-> r.student_id,
             flag |-> IF r.date # None /\ Val(r.date) > Val(co) THEN 1 ELSE 0])

\* one row for each pair of a row of ls and a row of rs, ls-major
Cross(ls, rs, f(_, _)) ==
    [n \in 1..(Len(ls) * Len(rs)) |->
        f(ls[((n - 1) \div Len(rs)) + 1], rs[((n - 1) % Len(rs)) + 1])]

\* base.merge(add, on="student_id", how="outer"): base holds the columns of
\* the first width targets (flags, missing where a side had no row)
merge_outer(base, add, width) ==
    LET keys == SortedBy(StudentIds(base) \cup StudentIds(add), StrLess)
        blank == [i \in 1..width |-> None]
        one(sid) ==
            LET ls == RowsOf(base, sid)
                rs == RowsOf(add, sid)
            IN  IF ls = <<>>
                THEN MapSeq(rs, LAMBDA r :
                         [student_id |-> sid, flags |-> Append(blank, Some(r.flag))])
                ELSE IF rs = <<>>
                THEN MapSeq(ls, LAMBDA l :
                         [student_id |-> sid, flags |-> Append(l.flags, None)])
                ELSE Cross(ls, rs, LAMBDA l, r :
                         [student_id |-> sid, flags |-> Append(l.flags, Some(r.flag))])
    IN  Concat(MapSeq(keys, one))

\* per_target[0] merged with per_target[1:], left to right
merge_all(per_target) ==
    LET RECURSIVE Go(_)
        Go(n) ==
            IF n = 1
            THEN MapSeq(per_target[1], LAMBDA r :
                     [student_id |-> r.student_id, flags |-> <<Some(r.flag)>>])
            ELSE merge_outer(Go(n - 1), per_target[n], n - 1)
    IN  IF per_target = <<>> THEN <<>> ELSE Go(Len(per_target))

\* the target columns with fillna(0), and their row sum
with_count(base) ==
    MapSeq(base, LAMBDA r :
        LET fl == MapSeq(r.flags, fillna0)
        IN  [student_id |-> r.student_id, flags |-> fl, count |-> SumSeq(fl)])

\* count_mastery(fp, target_list, cutoff): `base` with its target columns
\* (flags) and mas_count (count); the function returns the columns
\* student_id and mas_count of it
mastery_base(book, hit_pairs, targets, co) ==
    with_count(merge_all(MapSeq(targets, LAMBDA tgt :
        mastery_target(book, hit_pairs, tgt, co))))

count_mastery(book, targets, co) ==
    mastery_base(book, _sheets_for_targets(SheetNames(book), targets), targets, co)

\* count_late_mastery(fp, target_list, cutoff): `base` likewise, with
\* late_count (count); empty without a cutoff
late_base(book, hit_pairs, targets, co) ==
    with_count(merge_all(MapSeq(targets, LAMBDA tgt :
        late_target(book, hit_pairs, tgt, co))))

count_late_mastery(book, targets, co) ==
    IF co = None THEN <<>>
    ELSE late_base(book, _sheets_for_targets(SheetNames(book), targets), targets, co)

-----------------------------------------------------------------------------
(* Bounded inputs of the counters *)

MaxUnitRows == 2

Year2024 == <<"2", "0", "2", "4">>

\* the cutoff of a 2024 file, and the day after it
OnTime == Date(Val(EXAM_CUTOFF_BY_YEAR(2025)))
TooLate == Date(Val(EXAM_CUTOFF_BY_YEAR(2025)) + 1)

UnitRow(id, d) ==
    [id |-> id, grade |-> <<>>, eng |-> Nil, m1 |-> Nil, m2 |-> Nil, jpn |-> Nil,
     kdate |-> d]

\* student 10 with no date, a date on the cutoff day or the day after, or a
\* number in the date cell; student 2 with a date on the cutoff day or the
\* day after; a row whose id 2.5 truncates to student 2, without a date; a
\* row whose id cell holds a date
UnitRows ==
    {UnitRow(Num(10), d) : d \in {Nil, OnTime, TooLate, Num(45000)}}
        \cup {UnitRow(Num(2), d) : d \in {OnTime, TooLate}}
        \cup {UnitRow(Half(2), Nil), UnitRow(OnTime, OnTime)}

\* the first unit sheet: a sheet of unit 1, a sheet of unit 2, a sheet named
\* as unit 1 without the year; with both columns, without the date column,
\* without the id column
FirstUnitSheets ==
    {[name |-> n, cols |-> c, rows |-> rs] :
        n \in {Year2024 \o ENG_TARGETS[1], Year2024 \o ENG_TARGETS[2], ENG_TARGETS[1]},
        c \in {{"id", "kdate"}, {"id"}, {"kdate"}},
        rs \in SeqsUpTo(UnitRows, MaxUnitRows)}

\* a second sheet of unit 1 ("2025 <unit 1>"), of at most one row
SecondUnitSheets ==
    {[name |-> <<"2", "0", "2", "5", " ">> \o ENG_TARGETS[1],
      cols |-> {"id", "kdate"}, rows |-> rs] : rs \in SeqsUpTo(UnitRows, 1)}

UnitBooks ==
    {<<a>> : a \in FirstUnitSheets} \cup
    {<<a, b>> : a \in FirstUnitSheets, b \in SecondUnitSheets}

InitMastery ==
    /\ pc = "call"
    /\ fp \in UnitBooks
    /\ target_list = ENG_TARGETS
    /\ stem = <<>> /\ override_map = <<>>
    /\ cutoff \in {None, EXAM_CUTOFF_BY_YEAR(2025)}
    /\ sheet_names = <<>> /\ hit = <<>>
    /\ exam = <<>> /\ mas = <<>> /\ late = <<>>
    /\ IdleTables /\ IdleMain

\* count_mastery(fp, target_list, cutoff)
CountMastery ==
    /\ pc = "call"
    /\ mas' = count_mastery(fp, target_list, cutoff)
    /\ pc' = "counted"
    /\ UNCHANGED <<fp, exam, late, cutoffVars, sheetVars, tableVars, mainVars>>

\* count_late_mastery(fp, target_list, cutoff)
CountLate ==
    /\ pc = "counted"
    /\ late' = count_late_mastery(fp, target_list, cutoff)
    /\ pc' = "done"
    /\ UNCHANGED <<fp, exam, mas, cutoffVars, sheetVars, tableVars, mainVars>>

NextMastery == CountMastery \/ CountLate

SpecMastery == InitMastery /\ [][NextMastery]_vars

-----------------------------------------------------------------------------
(* C2, C4 *)

\* the sheets of the workbook that are matched to a unit of the catalog and
\* have an id column and a completion-date column, with the unit's index
MatchedAmong(book, targets, pairs) ==
    {<<u, sh>> \in (DOMAIN targets) \X Range(book) :
        /\ {"id", "kdate"} \subseteq sh.cols
        /\ <<targets[u], sh.name>> \in pairs}

MatchedSheets(book, targets) ==
    MatchedAmong(book, targets, Range(_sheets_for_targets(SheetNames(book), targets)))

\* the completion-date cells of student sid in the sheets matched to unit u
DateCellsOf(ms, u, sid) ==
    UNION {{r.kdate : r \in {x \in Range(m[2].rows) : StudentOf(m[2], x) = Some(sid)}} :
           m \in {y \in ms : y[1] = u}}

\* the students with a row in a matched sheet
StudentsOf(ms) ==
    UNION {UNION {StudentOf(m[2], r) : r \in Range(m[2].rows)} : m \in ms}

MasteryIsOr(ms) ==
    /\ {mas[i].student_id : i \in DOMAIN mas} = StudentsOf(ms)
    /\ \A i, j \in DOMAIN mas : mas[i].student_id = mas[j].student_id => i = j
    /\ \A i \in DOMAIN mas :
        /\ \A u \in DOMAIN target_list :
               mas[i].flags[u] =
                   IF \E c \in DateCellsOf(ms, u, mas[i].student_id) :
                          /\ to_datetime(c) # None
                          /\ (cutoff = None \/ Val(to_datetime(c)) <= Val(cutoff))
                   THEN 1 ELSE 0
        /\ mas[i].count = Cardinality({u \in DOMAIN target_list : mas[i].flags[u] = 1})

\* C2: one row per student; the flag of a unit is 1 iff some row of the
\* student in a sheet matched to the unit has a completion date (the cell as
\* to_datetime reads it) that is on or before the cutoff (any date when there
\* is no cutoff), 0 otherwise; the mastery count is the number of units
\* flagged, each counted once.
C2_CompletedIsOr ==
    pc \in {"counted", "done"} => MasteryIsOr(MatchedSheets(fp, target_list))

\* a student with a late and an on-time date for unit 1, flagged once
C2_Witness_Duplicate ==
    /\ pc = "counted"
    /\ cutoff # None
    /\ {OnTime, TooLate} \subseteq DateCellsOf(MatchedSheets(fp, target_list), 1, <<"1", "0">>)
    /\ \E i \in DOMAIN mas :
           mas[i].student_id = <<"1", "0">> /\ mas[i].flags[1] = 1 /\ mas[i].count = 1

LateIsEarliest(ms) ==
    /\ {late[i].student_id : i \in DOMAIN late} = StudentsOf(ms)
    /\ \A i, j \in DOMAIN late : late[i].student_id = late[j].student_id => i = j
    /\ \A i \in DOMAIN late :
        /\ \A u \in DOMAIN target_list :
               late[i].flags[u] =
                   IF /\ \E c \in DateCellsOf(ms, u, late[i].student_id) :
                             to_datetime(c) # None
                      /\ \A c \in DateCellsOf(ms, u, late[i].student_id) :
                             to_datetime(c) # None => Val(to_datetime(c)) > Val(cutoff)
                   THEN 1 ELSE 0
        /\ late[i].count = Cardinality({u \in DOMAIN target_list : late[i].flags[u] = 1})

\* C4 as stated: with a cutoff, the late table has one row per student; a
\* unit is flagged late iff the student has a completion date for it and the
\* earliest one, over all the sheets matched to the unit, is after the
\* cutoff; late_count is the number of late units.
C4_LateIsEarliest ==
    (pc = "done" /\ cutoff # None) => LateIsEarliest(MatchedSheets(fp, target_list))

-----------------------------------------------------------------------------
(* Aggregator / report shaper                                              *)
(* A panel row is [student_id, grade_norm, score_eng, score_math,          *)
(* score_jpn, eng_mas, math_mas, tot_mas, yyyymm_or_year, eng_late,        *)
(* math_late]. A score is in halves; a mean is kept in tenths, as round(1)  *)
(* leaves it.                                                              *)

\* Series.round(1) of the mean of the n > 0 scores whose sum is total halves,
\* in tenths: the nearest tenth of total / (2 * n), a tie going to the even
\* one (on whole numbers and halves the float mean times 10 is exact at a
\* tie, which rint rounds to even)
round1(total, n) ==
    LET q == (5 * total) \div n
        r == (5 * total) % n
    IN  IF 2 * r < n THEN q
        ELSE IF 2 * r > n THEN q + 1
        ELSE IF q % 2 = 0 THEN q ELSE q + 1

\* mutant: the grid stops one bucket short, range(0, max_val)
template_short(mx) == [n \in 1..(2 * mx) |->
                          <<Cohorts[((n - 1) \div mx) + 1], (n - 1) % mx>>]

\* the (cohort, bucket) pairs of the template, sorted
\* MultiIndex.from_product([[J1+2, J3], range(0, max_val + 1)])
template(mx) == [n \in 1..(2 * (mx + 1)) |->
                    <<Cohorts[((n - 1) \div (mx + 1)) + 1], (n - 1) % (mx + 1)>>]

\* the rows of group (cohort, bucket) of df.groupby(["grade_norm", key])
group_rows(df, key, cell) ==
    SelectSeq(df, LAMBDA r : r.grade_norm = cell[1] /\ r[key] = cell[2])

\* one row of summarize_long: the group aggregated, left-joined on the grid
long_row(grp, score_col, cell) ==
    [cohort |-> cell[1], bucket |-> cell[2],
     n |-> Cardinality(StudentIds(grp)),
     mean |-> IF grp = <<>> THEN None
              ELSE Some(round1(SumSeq(MapSeq(grp, LAMBDA r : Val(r[score_col]))), Len(grp)))]

\* summarize_long(df, key, score_col, label, max_val)
summarize_long(df, key, score_col, mx) ==
    MapSeq(template(mx), LAMBDA cell :
        long_row(group_rows(SelectSeq(df, LAMBDA r : r[score_col] # None), key, cell),
                 score_col, cell))

\* summarize_distribution(df, key, max_val)
summarize_distribution(df, key, mx) ==
    MapSeq(template(mx), LAMBDA cell :
        [cohort |-> cell[1], bucket |-> cell[2],
         n |-> Cardinality(StudentIds(group_rows(df, key, cell)))])

\* the value of the long table at (cohort, bucket); missing when the long
\* table has no such row
long_value(long_df, c, b) ==
    OptMax({long_df[i].mean : i \in {j \in DOMAIN long_df :
                                        long_df[j].cohort = c /\ long_df[j].bucket = b}})

\* mutant: the pivot keeps every bucket and cohort of the long table
summarize_wide_dense(long_df) ==
    LET idx == {long_df[i].bucket : i \in DOMAIN long_df}
        present == {long_df[i].cohort : i \in DOMAIN long_df}
    IN  [cols |-> SelectSeq(Cohorts, LAMBDA c : c \in present),
         rows |-> MapSeq(SortedBy(idx, IntLess), LAMBDA b :
                     [bucket |-> b,
                      vals |-> [c \in present |-> long_value(long_df, c, b)]])]

\* summarize_wide(long_df, key_col, value_col): pivot_table (dropna=True)
\* keeps the (bucket, cohort) groups whose value is not missing, so a bucket
\* is a row and a cohort a column only when it has a value
summarize_wide(long_df) ==
    LET kept == SelectSeq(long_df, LAMBDA r : r.mean # None)
        idx == {kept[i].bucket : i \in DOMAIN kept}
        present == {kept[i].cohort : i \in DOMAIN kept}
    IN  [cols |-> SelectSeq(Cohorts, LAMBDA c : c \in present),
         rows |-> MapSeq(SortedBy(idx, IntLess), LAMBDA b :
                     [bucket |-> b,
                      vals |-> [c \in present |-> long_value(long_df, c, b)]])]

-----------------------------------------------------------------------------
(* Bounded inputs of the report shaper *)

MaxPanelRows == 3

PanelRow(sid, g, k, sc) ==
    [student_id |-> sid, grade_norm |-> g, score_eng |-> sc, score_math |-> None,
     score_jpn |-> None, eng_mas |-> k, math_mas |-> 0, tot_mas |-> k,
     yyyymm_or_year |-> Year2024, eng_late |-> k, math_late |-> 0]

\* student 10 in either cohort, student 2 in the third year; mastery 0 or 1;
\* the score missing, 0 or 50
PanelRows ==
    {PanelRow(p[1], p[2], k, sc) :
        p \in {<< <<"1", "0">>, "J1+2">>, << <<"1", "0">>, "J3">>, << <<"2">>, "J3">>},
        k \in {0, 1}, sc \in {None, Some(0), Some(100)}}

InitTables ==
    /\ pc = "call"
    /\ panel \in SeqsUpTo(PanelRows, MaxPanelRows)
    /\ max_val \in {1, 6}
    /\ t_long = <<>> /\ t_dist = <<>> /\ t_wide = <<>>
    /\ IdleCutoff /\ IdleSheets /\ IdleBook /\ IdleMain

\* t_eng = summarize_long(panel, "eng_mas", "score_eng", ..., max_val)
SummarizeLong ==
    /\ pc = "call"
    /\ t_long' = summarize_long(panel, "eng_mas", "score_eng", max_val)
    /\ pc' = "long"
    /\ UNCHANGED <<panel, max_val, t_dist, t_wide, cutoffVars, sheetVars, bookVars, mainVars>>

\* w_eng = summarize_wide(t_eng, "eng_mas", ...)
SummarizeWide ==
    /\ pc = "long"
    /\ t_wide' = summarize_wide(t_long)
    /\ pc' = "wide"
    /\ UNCHANGED <<panel, max_val, t_long, t_dist, cutoffVars, sheetVars, bookVars, mainVars>>

\* ref_eng = summarize_distribution(panel, "eng_late", max_val)
SummarizeDistribution ==
    /\ pc = "wide"
    /\ t_dist' = summarize_distribution(panel, "eng_late", max_val)
    /\ pc' = "done"
    /\ UNCHANGED <<panel, max_val, t_long, t_wide, cutoffVars, sheetVars, bookVars, mainVars>>

NextTables == SummarizeLong \/ SummarizeWide \/ SummarizeDistribution

SpecTables == InitTables /\ [][NextTables]_vars

-----------------------------------------------------------------------------
(* C5, C10 *)

Grid == {"J1+2", "J3"} \X (0..max_val)

\* the table has exactly one row for each pair of the grid, and no other
DenseGrid(t) ==
    /\ Len(t) = 2 * (max_val + 1)
    /\ \A cell \in Grid :
           Cardinality({i \in DOMAIN t : t[i].cohort = cell[1] /\ t[i].bucket = cell[2]}) = 1

\* a panel row with a score, of that cohort and mastery count
Occupied(c, b) ==
    \E i \in DOMAIN panel :
        /\ panel[i].grade_norm = c /\ panel[i].eng_mas = b /\ panel[i].score_eng # None

\* C5: the long table and the distribution table have exactly
\* 2 * (max_val + 1) rows, one per (cohort, bucket) pair; a pair of the long
\* table that no panel row with a score occupies has headcount 0 and a
\* missing mean; a pair of the distribution table that no panel row occupies
\* has headcount 0.
C5_DenseGrid ==
    /\ pc \in {"long", "wide", "done"} =>
           /\ DenseGrid(t_long)
           /\ \A i \in DOMAIN t_long :
                  ~Occupied(t_long[i].cohort, t_long[i].bucket)
                      => t_long[i].n = 0 /\ t_long[i].mean = None
    /\ pc = "done" =>
           /\ DenseGrid(t_dist)
           /\ \A i \in DOMAIN t_dist :
                  (~\E k \in DOMAIN panel :
                        /\ panel[k].grade_norm = t_dist[i].cohort
                        /\ panel[k].eng_late = t_dist[i].bucket)
                      => t_dist[i].n = 0

\* a panel whose only scored row has score 0: its pair has mean 0, the other
\* pairs have a missing mean and headcount 0
C5_Witness_ZeroMean ==
    /\ pc = "done"
    /\ max_val = 6
    /\ \E i \in DOMAIN t_long : t_long[i].n = 1 /\ t_long[i].mean = Some(0)
    /\ Cardinality({i \in DOMAIN t_long : t_long[i].n = 0 /\ t_long[i].mean = None}) = 13

\* C10 as stated: the wide table has one row per bucket 0..max_val and one
\* column per cohort, holding the (cohort, bucket) mean.
C10_WideDense ==
    pc \in {"wide", "done"} =>
        /\ MapSeq(t_wide.rows, LAMBDA r : r.bucket) = [b \in 1..(max_val + 1) |-> b - 1]
        /\ t_wide.cols = Cohorts
        /\ \A i \in DOMAIN t_wide.rows : \A c \in Range(Cohorts) :
               /\ c \in DOMAIN t_wide.rows[i].vals
               /\ t_wide.rows[i].vals[c] = long_value(t_long, c, t_wide.rows[i].bucket)

\* C10 amended: the wide table has one row per bucket in which at least one
\* cohort has a mean (a student with a score), in ascending order, and one
\* column per cohort that has a mean in at least one bucket; each cell holds
\* the (cohort, bucket) mean of the long table, missing where that cohort has
\* none in that bucket.
C10_WideSparse ==
    pc \in {"wide", "done"} =>
        LET buckets == {b \in 0..max_val : \E c \in Range(Cohorts) : Occupied(c, b)}
            cohorts == {c \in Range(Cohorts) : \E b \in 0..max_val : Occupied(c, b)}
        IN  /\ {t_wide.rows[i].bucket : i \in DOMAIN t_wide.rows} = buckets
            /\ \A i, j \in DOMAIN t_wide.rows :
                   i < j => t_wide.rows[i].bucket < t_wide.rows[j].bucket
            /\ Range(t_wide.cols) = cohorts
            /\ Len(t_wide.cols) = Cardinality(cohorts)
            /\ \A i \in DOMAIN t_wide.rows :
                   /\ DOMAIN t_wide.rows[i].vals = cohorts
                   /\ \A c \in cohorts :
                          /\ t_wide.rows[i].vals[c] = long_value(t_long, c, t_wide.rows[i].bucket)
                          /\ (t_wide.rows[i].vals[c] # None <=> Occupied(c, t_wide.rows[i].bucket))

\* a panel with scored students in one cohort and one bucket only: the wide
\* table has one row and one column
C10_Witness_OneCell ==
    /\ pc = "wide"
    /\ \E i \in DOMAIN panel : panel[i].score_eng # None
    /\ Len(t_wide.rows) = 1
    /\ Len(t_wide.cols) = 1

-----------------------------------------------------------------------------
(* main *)

\* the row l with column col set to v
WithCol(l, col, v) == [x \in (DOMAIN l) \cup {col} |-> IF x = col THEN v ELSE l[x]]

\* left.merge(right[[student_id, count]] renamed to col, on="student_id",
\* how="left") followed by left[col].fillna(0).astype(int): a left row is
\* repeated for every right row of its student
merge_left(left, right, col) ==
    Concat(MapSeq(left, LAMBDA l :
        LET rs == RowsOf(right, l.student_id)
        IN  IF rs = <<>> THEN <<WithCol(l, col, 0)>>
            ELSE MapSeq(rs, LAMBDA r : WithCol(l, col, r.count))))

\* merged["tot_mas"] = merged["eng_mas"] + merged["math_mas"], and the stem
with_tot(rows, st) ==
    MapSeq(rows, LAMBDA r :
        WithCol(WithCol(r, "tot_mas", r.eng_mas + r.math_mas), "yyyymm_or_year", st))

\* the body of the loop over args.file: `merged` of one file
merged_of(base, em, mm, el, ml, st) ==
    merge_left(merge_left(with_tot(merge_left(merge_left(base, em, "eng_mas"),
                                              mm, "math_mas"), st),
                          el, "eng_late"),
               ml, "math_late")

\* the eight tables of the report
long_tables(pn) ==
    [eng |-> summarize_long(pn, "eng_mas", "score_eng", 6),
     math |-> summarize_long(pn, "math_mas", "score_math", 6),
     jpn |-> summarize_long(pn, "tot_mas", "score_jpn", 12)]

wide_tables(lt) ==
    [eng |-> summarize_wide(lt.eng), math |-> summarize_wide(lt.math),
     jpn |-> summarize_wide(lt.jpn)]

dist_tables(pn) ==
    [eng |-> summarize_distribution(pn, "eng_late", 6),
     math |-> summarize_distribution(pn, "math_late", 6)]

-----------------------------------------------------------------------------
(* Bounded inputs of main *)

MaxFiles == 2

AllScores == CHOOSE sc \in ScoreCells : sc.jpn = Num(60)
NoScores == CHOOSE sc \in ScoreCells : sc.eng = Nil
Third == <<"fw3", "nen">>
Second == <<"kou", "2">>

\* the results sheets of a file: none; two students, the second without any
\* score; one student listed under two cohorts
MainResults ==
    { <<>>,
      << [name |-> ResultName, cols |-> AllExamCols,
          rows |-> <<ExamRow(Num(2), Third, NoScores), ExamRow(Num(10), Third, AllScores)>>] >>,
      << [name |-> ResultName, cols |-> AllExamCols,
          rows |-> <<ExamRow(Num(10), Third, AllScores), ExamRow(Txt, Third, AllScores),
                     ExamRow(Half(10), Second, AllScores)>>] >> }

UnitSheet(n, rs) == [name |-> n, cols |-> {"id", "kdate"}, rows |-> rs]

\* the unit sheets of a file: none; every English unit done by student 10,
\* unit 1 in two sheets (the second with a full-width year and the id 10.5),
\* and a Math unit done late; unit 1 in two sheets, by student 10 on time in
\* one and late in the other
MainUnits ==
    { <<>>,
      [u \in 1..6 |-> UnitSheet(Year2024 \o ENG_TARGETS[u], <<UnitRow(Num(10), OnTime)>>)]
          \o << UnitSheet(<<"fw2", "fw0", "fw2", "fw5", " ">> \o ENG_TARGETS[1],
                          <<UnitRow(Half(10), OnTime)>>),
                UnitSheet(Year2024 \o MATH_TARGETS[1], <<UnitRow(Num(10), TooLate)>>) >>,
      << UnitSheet(Year2024 \o ENG_TARGETS[1],
                   <<UnitRow(Num(10), OnTime), UnitRow(Num(2), TooLate)>>),
         UnitSheet(<<"2", "0", "2", "5", " ">> \o ENG_TARGETS[1],
                   <<UnitRow(Num(10), TooLate)>>) >> }

\* a file of the 2024 exam (cutoff in the calendar, the year in full-width
\* digits) or without a year
MainStems == { <<"fw2", "fw0", "fw2", "fw4", "x">>, <<"x">> }

Files == {[stem |-> st, book |-> r \o u] : st \in MainStems, r \in MainResults, u \in MainUnits}

InitMain ==
    /\ pc = "loop"
    /\ args_file \in UNION {[1..n -> Files] : n \in 1..MaxFiles}
    /\ records = <<>> /\ eng_m = <<>> /\ math_m = <<>> /\ out = "none"
    /\ stem = <<>> /\ override_map = <<>> /\ cutoff = None
    /\ fp = <<>> /\ exam = <<>> /\ mas = <<>> /\ late = <<>>
    /\ IdleSheets /\ IdleTables

\* one pass of `for fp in args.file`
ProcessFile ==
    /\ pc = "loop"
    /\ Len(records) < Len(args_file)
    /\ LET f == args_file[Len(records) + 1]
       IN  /\ stem' = f.stem
           /\ fp' = f.book
           /\ cutoff' = cutoff_for_stem(f.stem, override_map)
    /\ exam' = read_exam(fp')
    /\ eng_m' = count_mastery(fp', ENG_TARGETS, cutoff')
    /\ math_m' = count_mastery(fp', MATH_TARGETS, cutoff')
    /\ records' = Append(records,
                         merged_of(exam', eng_m', math_m',
                                   count_late_mastery(fp', ENG_TARGETS, cutoff'),
                                   count_late_mastery(fp', MATH_TARGETS, cutoff'),
                                   stem'))
    /\ UNCHANGED <<pc, override_map, mas, late, args_file, out, sheetVars, tableVars>>

\* after the loop: the warning when records is empty, else the panel, the
\* tables and the workbook
Finish ==
    /\ pc = "loop"
    /\ Len(records) = Len(args_file)
    /\ pc' = "done"
    /\ IF records = <<>>
       THEN /\ out' = "warned"
            /\ UNCHANGED tableVars
       ELSE /\ panel' = Concat(records)
            /\ t_long' = long_tables(panel')
            /\ t_wide' = wide_tables(t_long')
            /\ t_dist' = dist_tables(panel')
            /\ out' = "written"
            /\ UNCHANGED max_val
    /\ UNCHANGED <<cutoffVars, sheetVars, bookVars, args_file, records, eng_m, math_m>>

NextMain == ProcessFile \/ Finish

SpecMain == InitMain /\ [][NextMain]_vars

-----------------------------------------------------------------------------
(* C1, C6, C8 *)

InRange(x, lo, hi) == lo <= x /\ x <= hi

PanelRowOk(r) ==
    /\ InRange(r.eng_mas, 0, 6)
    /\ InRange(r.math_mas, 0, 6)
    /\ r.tot_mas = r.eng_mas + r.math_mas
    /\ InRange(r.tot_mas, 0, 12)

\* C1: after any number of processed files, every row count_mastery produced
\* for the last file has a mastery count in 0..6, and every row of every
\* per-file table, and of the panel, has eng_mas and math_mas in 0..6 and
\* tot_mas = eng_mas + math_mas.
C1_MasteryRange ==
    /\ \A i \in DOMAIN eng_m : InRange(eng_m[i].count, 0, 6)
    /\ \A i \in DOMAIN math_m : InRange(math_m[i].count, 0, 6)
    /\ \A k \in DOMAIN records : \A i \in DOMAIN records[k] : PanelRowOk(records[k][i])
    /\ \A i \in DOMAIN panel : PanelRowOk(panel[i])

\* after two files, a panel row of a student who completed the six English
\* units (one of them listed twice) and one Math unit
C1_Witness_FullCatalog ==
    /\ pc = "done"
    /\ Len(records) = 2
    /\ \E i \in DOMAIN panel :
           panel[i].eng_mas = 6 /\ panel[i].math_mas = 1 /\ panel[i].tot_mas = 7

\* C6 as stated: when every per-file table is empty the run ends with the
\* warning and no workbook; a workbook is written only when some file
\* contributed a row.
C6_WarnWhenNoData ==
    pc = "done" =>
        /\ (\A k \in DOMAIN records : records[k] = <<>>) => out = "warned"
        /\ out = "written" => \E k \in DOMAIN records : records[k] # <<>>

\* student sid is listed under cohort c in a results sheet of file k with a
\* numeric cell for the subject (for Math: one of the two sub-scores)
ScoredIn(k, sid, c, subj) ==
    \E sh \in Range(args_file[k].book) :
        /\ Contains(sh.name, ResultMarker)
        /\ {"eng", "id", "grade"} \subseteq sh.cols
        /\ \E r \in Range(sh.rows) :
            /\ StudentOf(sh, r) = Some(sid)
            /\ normalize_grade_val(r.grade) = c
            /\ CASE subj = "eng" -> r.eng.k = "num"
                 [] subj = "jpn" -> "jpn" \in sh.cols /\ r.jpn.k = "num"
                 [] subj = "math" -> /\ {"m1", "m2"} \subseteq sh.cols
                                     /\ (r.m1.k = "num" \/ r.m2.k = "num")

KeyOf(subj) == CASE subj = "eng" -> "eng_mas" [] subj = "math" -> "math_mas" [] subj = "jpn" -> "tot_mas"

\* the students who count in pair (c, b) of the long table of a subject: those
\* with a panel row in the pair and a score cell for the subject
Contributors(subj, c, b) ==
    {sid \in {<<"2">>, <<"1", "0">>} :
        \E k \in DOMAIN records : \E r \in Range(records[k]) :
            /\ r.student_id = sid /\ r.grade_norm = c /\ r[KeyOf(subj)] = b
            /\ ScoredIn(k, sid, c, subj)}

\* the headcounts of the long table of a subject count the students with a
\* score cell only
HeadcountIsScored(subj) ==
    \A i \in DOMAIN t_long[subj] :
        t_long[subj][i].n =
            Cardinality(Contributors(subj, t_long[subj][i].cohort, t_long[subj][i].bucket))

\* C8 as stated: a student without a score cell for a subject is in neither
\* the headcount nor the mean of that subject's long table, for English, Math
\* and Japanese; a student whose two Math cells are empty has a missing Math
\* score.
C8_MissingScoreSkipped ==
    (pc = "done" /\ out = "written") =>
        /\ HeadcountIsScored("eng")
        /\ HeadcountIsScored("math")
        /\ HeadcountIsScored("jpn")
        /\ \A k \in DOMAIN records : \A r \in Range(records[k]) :
               r.score_math # None => ScoredIn(k, r.student_id, r.grade_norm, "math")

====
